---- MODULE Spec2Model ----
(***************************************************************************)
(* Model of ravc: the source-chain resolver (src/lib/scraper.js, class     *)
(* Scraper, first definition), the rate validator, and the continuous      *)
(* update scheduler (src/lib/updater.js) with the session logger           *)
(* (src/unnamed/part_001, class Logger).                                   *)
(*                                                                         *)
(* Nine specifications share the module:                                   *)
(*   Spec          one Scraper instance serving getExchangeRate and        *)
(*                 ui.directSource calls, one at a time;                   *)
(*   SpecValidate  isValidRate applied to a bounded set of inputs;         *)
(*   SpecUpdater   one Updater driving start / stop / timer ticks and      *)
(*                 fetch completions against the Logger;                   *)
(*   SpecLogger    the Logger's three session operations called directly   *)
(*                 with any session number;                                *)
(*   SpecRestart   the Logger across process restarts, with a session.json *)
(*                 that may be lost or damaged between two runs;           *)
(*   SpecHistory   recordHistory applied to buffers around the 1000 cap;   *)
(*   SpecDirection findValue and determineDirection applied to a bounded   *)
(*                 set of Google Finance variation elements;               *)
(*   SpecLive      Spec under the fairness of fetch completion and of the  *)
(*                 retry delay;                                            *)
(*   SpecFormatted getFormattedHistory applied to short histories with a   *)
(*                 bounded set of limits.                                  *)
(* Each specification leaves the variables of the others at their initial  *)
(* values.                                                                 *)
(***************************************************************************)
EXTENDS Integers, Sequences, FiniteSets, TLC

VARIABLES
    \* ---- Scraper configuration (constructor, scraper.js 14-24) ----
    isTermux,       \* this.isTermux = process.platform === 'android'
    sources,        \* names of this.sources (the enabled configured sources)
    priority,       \* source name -> configured priority (config field)
    maxRetries,     \* this.maxRetries
    fallbackRate,   \* this.fallbackRate (hundredths)
    \* ---- one resolver call in progress ----
    pc,             \* "idle" | "try" | "delay" | "done"
    call,           \* "none" | "getExchangeRate" | "directSource"
    chain,          \* the sources this call will hand to trySource, in order
    idx,            \* position in chain of the source being tried
    retryCount,     \* trySource's retryCount argument
    trace,          \* fetcher invocations of this call, oldest first
    result,         \* value the call returned (Null until done)
    raised,         \* TRUE when the call rejected with an exception
    \* ---- isValidRate applied to one input (SpecValidate) ----
    vRate,          \* the argument
    vDone,          \* whether isValidRate has been applied to it
    vResult,        \* the JavaScript value it returned
    \* ---- Updater (updater.js 17-27) ----
    isUpdating,           \* this.isUpdating
    updateInterval,       \* this.updateInterval holds a timer handle
    liveTimers,           \* interval timers armed and not cleared
    currentSessionNumber, \* this.currentSessionNumber (0 stands for null)
    history,              \* this.history
    previousRate,         \* this.previousRate (Missing stands for null)
    inflight,             \* performUpdate executions awaiting getExchangeRate
    ticksStarted,         \* performUpdate executions started so far
    logBlocks,            \* blocks appended to the daily variation-*.txt file
    callbacks,            \* invocations of the onUpdate callback
    op,                   \* the operation that made the last step
    warning,              \* the last operation logged the already-active warning
    wasUpdating,          \* this.isUpdating when the last operation was called
    errorLogged,          \* the last operation logged 'Erro na atualizacao'
    \* ---- Logger (part_001 370-378) ----
    currentSession,       \* this.currentSession, the in-memory state document
    disk,                 \* contents last written to logs/session.json
    written,              \* the last writeFileSync of session.json succeeded
    file,                 \* "readable" | "absent" | "unreadable"
    generated,            \* session ids generated so far (generateSessionId)
    now,                  \* the clock read by new Date()
    arg,                  \* sessionNumber argument of the last direct Logger call
    ret,                  \* value returned by the last direct Logger call
    wasBehind,            \* the file lacked part of the document when the
                          \* last direct Logger call was made
    \* ---- findValue / determineDirection applied to one page (SpecDirection) ----
    dTexts,         \* per value selector: text of the element found, or absent
    dLabel,         \* the [jsname="Fe7oBc"] element and its aria-label
    dDone,          \* whether getVariationInfo has run on this page
    dValue,         \* variation.value returned by findValue
    dDirection,     \* variation.direction returned by determineDirection
    \* ---- getFormattedHistory applied to one history (SpecFormatted) ----
    fLimit,         \* the limit argument
    fDone,          \* whether getFormattedHistory has been applied
    fResult         \* the array it returned

resolverVars == <<isTermux, sources, priority, maxRetries, fallbackRate,
                  pc, call, chain, idx, retryCount, trace, result, raised>>
validateVars == <<vRate, vDone, vResult>>
directionVars == <<dTexts, dLabel, dDone, dValue, dDirection>>
formatVars == <<fLimit, fDone, fResult>>
updaterVars  == <<isUpdating, updateInterval, liveTimers, currentSessionNumber,
                  history, previousRate, inflight, ticksStarted, logBlocks,
                  callbacks, op, warning, wasUpdating, errorLogged,
                  currentSession, disk, written, file, generated,
                  now, arg, ret, wasBehind>>
vars == <<resolverVars, validateVars, directionVars, formatVars, updaterVars>>

----------------------------------------------------------------------------
(* Bounds *)

MaxRetriesBound == 2       \* maxRetries ranges over 0..MaxRetriesBound
MaxRateInput == 1100       \* isValidRate inputs: 0.00 .. 11.00 in hundredths
MaxSessions == 2           \* update sessions opened in one behaviour
MaxTicks == 2              \* performUpdate executions started in one behaviour
MaxLogged == 2             \* update records stored by direct logUpdate calls
MaxTime == 1               \* clock values in the direct Logger calls: 0..MaxTime
MaxGenerated == 2          \* session ids generated over the process restarts
MaxPushes == 5             \* recordHistory calls on one buffer
MaxHistoryLen == 6         \* entries in the history handed to getFormattedHistory
MaxLimit == 8              \* getFormattedHistory limits: 0..MaxLimit

----------------------------------------------------------------------------
(* JavaScript values.  A rate is a number in hundredths, NaN, +Infinity or *)
(* a missing value (undefined / null).                                     *)

Num(n)   == [t |-> "num", v |-> n]
NaN      == [t |-> "nan", v |-> 0]
Infinity == [t |-> "inf", v |-> 0]
NegInfinity == [t |-> "ninf", v |-> 0]
Missing  == [t |-> "missing", v |-> 0]
JsTrue   == [t |-> "bool", v |-> 1]
JsFalse  == [t |-> "bool", v |-> 0]

\* JavaScript truthiness of a value
Truthy(x) ==
    CASE x.t = "num"     -> x.v # 0
      [] x.t = "nan"     -> FALSE
      [] x.t = "inf"     -> TRUE
      [] x.t = "ninf"    -> TRUE
      [] x.t = "missing" -> FALSE
      [] x.t = "bool"    -> x.v = 1

\* isNaN(x): ToNumber(undefined) is NaN
IsNaN(x) == x.t = "nan" \/ x.t = "missing"

\* x > n and x < n for a number n given in hundredths (comparisons with NaN are false)
Gt(x, n) == (x.t = "num" /\ x.v > n) \/ x.t = "inf"
Lt(x, n) == (x.t = "num" /\ x.v < n) \/ x.t = "ninf"

\* mutant: lower bound inclusive
isValidRate_ge(rate) ==
    IF ~Truthy(rate) THEN rate
    ELSE IF IsNaN(rate) THEN JsFalse
    ELSE IF ~(Gt(rate, 100) \/ rate = Num(100)) THEN JsFalse
    ELSE IF Lt(rate, 1000) THEN JsTrue ELSE JsFalse

\* mutant: upper bound inclusive
isValidRate_le(rate) ==
    IF ~Truthy(rate) THEN rate
    ELSE IF IsNaN(rate) THEN JsFalse
    ELSE IF ~Gt(rate, 100) THEN JsFalse
    ELSE IF Lt(rate, 1000) \/ rate = Num(1000) THEN JsTrue ELSE JsFalse

\* Scraper.isValidRate: rate && !isNaN(rate) && rate > 1 && rate < 10
\* (the && chain returns its first falsy operand)
isValidRate(rate) ==
    IF ~Truthy(rate) THEN rate
    ELSE IF IsNaN(rate) THEN JsFalse
    ELSE IF ~Gt(rate, 100) THEN JsFalse
    ELSE IF Lt(rate, 1000) THEN JsTrue ELSE JsFalse

----------------------------------------------------------------------------
(* Sources *)

Google  == "Google Finance"
Bacen   == "Banco Central API"
Awesome == "API Publica (Awesome)"
SourceNames == {Google, Bacen, Awesome}

\* the type field of the configured sources: Google Finance is the web
\* (browser) source, the other two are API sources
SourceType(name) == IF name = Google THEN "web" ELSE "api"

Null  == [kind |-> "null"]
Throw == [kind |-> "throw"]

\* mutant: the sample carries a source label that is not the configured name
Sample_label(src, rate, dir, pct) ==
    [kind |-> "sample", rate |-> rate, source |-> "Unknown",
     direction |-> dir, percent |-> pct]

\* the object literal the fetchers return (scraper.js 202-207, 282-292, 330-340)
Sample(src, rate, dir, pct) ==
    [kind |-> "sample", rate |-> rate, source |-> src,
     direction |-> dir, percent |-> pct]

\* mutant: fallback reported with a direction
createFallbackData_up ==
    [kind |-> "sample", rate |-> Num(fallbackRate), source |-> "Fallback",
     direction |-> "up", percent |-> "0.00%"]

\* Scraper.createFallbackData
createFallbackData ==
    [kind |-> "sample", rate |-> Num(fallbackRate), source |-> "Fallback",
     direction |-> "stable", percent |-> "0.00%"]

----------------------------------------------------------------------------
(* What the outside world answers to one fetcher invocation.               *)
(*   today      first request / page load: data, empty body, or an error   *)
(*              (network failure, HTTP status not ok, selector timeout)    *)
(*   yesterday  Banco Central's second request for the previous day        *)
(*   rate       the number carried by the answer (cotacaoVenda, bid, or    *)
(*              what parseFloat made of the price text)                    *)
(*   dir, pct   the variation read from the Google Finance page            *)
(*   closeThrows  browser.close() rejects in the finally block             *)

Statuses     == {"data", "empty", "error"}
FetchedRates == {Num(0), Num(100), Num(520), Num(999), Num(1000), NaN, Missing}
Directions   == {"up", "down", "stable"}
Percents     == {"0.00%", "0.29%"}
Responses    == [today : Statuses, yesterday : Statuses, rate : FetchedRates,
                 dir : Directions, pct : Percents, closeThrows : BOOLEAN]

\* Scraper.parseRate at the level of the parsed number: a strategy's result
\* is accepted when (result && !isNaN(result)), otherwise parseRate throws
parseRate(raw) == IF Truthy(raw) /\ ~IsNaN(raw) THEN raw ELSE Throw

\* parseFloat of the bid field: a missing or non-numeric field gives NaN
parseFloat(raw) == IF raw.t = "missing" THEN NaN ELSE raw

\* Scraper.scrapeGoogleFinance: throws on Termux before its try block; inside,
\* every error is caught and turned into null; an exception of
\* browser.close() in the finally block replaces the return value
scrapeGoogleFinance(source, resp) ==
    IF isTermux THEN Throw
    ELSE IF resp.closeThrows THEN Throw
    ELSE IF resp.today # "data" THEN Null
    ELSE LET rate == parseRate(resp.rate) IN
         IF rate = Throw THEN Null
         ELSE IF ~Truthy(isValidRate(rate)) THEN Null
         ELSE Sample(source, rate, resp.dir, resp.pct)

\* Scraper.scrapeBancoCentralAPI: every error is caught and turned into null
scrapeBancoCentralAPI(source, resp) ==
    IF resp.today = "error" THEN Null
    ELSE IF resp.today = "empty" /\ resp.yesterday # "data" THEN Null
    ELSE IF ~Truthy(isValidRate(resp.rate)) THEN Null
    ELSE Sample(source, resp.rate, "stable", "0.00%")

\* Scraper.scrapeAwesomeAPI: every error is caught and turned into null
scrapeAwesomeAPI(source, resp) ==
    IF resp.today # "data" THEN Null
    ELSE LET rate == parseFloat(resp.rate) IN
         IF ~Truthy(isValidRate(rate)) THEN Null
         ELSE Sample(source, rate, "stable", "0.00%")

\* trySource, line 129: on Termux a web source returns null without a fetch
trySourceSkips(source) == isTermux /\ SourceType(source) = "web"

\* trySource, the switch on source.name (lines 134-143)
trySourceDispatch(source, resp) ==
    CASE source = Google  -> scrapeGoogleFinance(source, resp)
      [] source = Bacen   -> scrapeBancoCentralAPI(source, resp)
      [] source = Awesome -> scrapeAwesomeAPI(source, resp)
      [] OTHER            -> Null

\* whether the fetcher went out to the network / the browser
Fetched(source) == ~(source = Google /\ isTermux)

\* mutant: one retry too many
trySourceCatch_le(rc) == IF rc <= maxRetries THEN "retry" ELSE "null"

\* trySource, the catch block (lines 144-152): retry while
\* retryCount < maxRetries, then give up with null
trySourceCatch(rc) == IF rc < maxRetries THEN "retry" ELSE "null"

\* mutant: Awesome before Banco Central
getExchangeRateTermux_swapped == <<Awesome, Bacen>>

\* Scraper.getExchangeRateTermux: the sources it looks up, in order
getExchangeRateTermux == <<Bacen, Awesome>>

\* Scraper.getExchangeRateDesktop: the sources it looks up, in order
getExchangeRateDesktop == <<Google, Bacen, Awesome>>

\* this.sources.find(s => s.name === N && s.enabled): sources that are not
\* found are not handed to trySource
Enabled(names) == SelectSeq(names, LAMBDA s : s \in sources)

\* mutant: the caller forgets to return the sample it got
Stops_never(r) == FALSE

\* if (result) return result  (lines 52, 62, 87, 99, 109)
Stops(r) == r.kind = "sample"

----------------------------------------------------------------------------
(* The resolver *)

Permutations3 == {f \in [SourceNames -> 1..3] :
                     \A a, b \in SourceNames : a # b => f[a] # f[b]}
FallbackRates == {550, 1200}

ValidateIdle == vRate = Missing /\ vDone = FALSE /\ vResult = Missing

DirectionIdle ==
    /\ dTexts = <<>> /\ dLabel = [state |-> "absent", words |-> <<>>]
    /\ dDone = FALSE /\ dValue = <<>> /\ dDirection = ""

FormatIdle == fLimit = 0 /\ fDone = FALSE /\ fResult = <<>>

CallIdle ==
    /\ pc = "idle" /\ call = "none" /\ chain = <<>> /\ idx = 1
    /\ retryCount = 0 /\ trace = <<>> /\ result = Null /\ raised = FALSE

\* Updater constructor; Logger constructor with no session.json on disk:
\* loadSession creates the fresh document and saves it
EmptyDocument == [sessionId |-> "sess_1", totalUpdates |-> 0, sessions |-> <<>>]

UpdaterIdle ==
    /\ isUpdating = FALSE /\ updateInterval = FALSE /\ liveTimers = 0
    /\ currentSessionNumber = 0 /\ history = <<>> /\ previousRate = Missing
    /\ inflight = {} /\ ticksStarted = 0 /\ logBlocks = <<>>
    /\ callbacks = <<>> /\ op = "constructor" /\ warning = FALSE
    /\ wasUpdating = FALSE /\ errorLogged = FALSE
    /\ currentSession = EmptyDocument
    /\ written = TRUE /\ file = "readable" /\ generated = 1
    /\ now = 0 /\ arg = 0 /\ ret = 0 /\ wasBehind = FALSE

Init ==
    /\ UpdaterIdle /\ disk = EmptyDocument
    /\ isTermux \in BOOLEAN
    /\ sources \in SUBSET SourceNames
    /\ priority \in Permutations3
    /\ maxRetries \in 0..MaxRetriesBound
    /\ fallbackRate \in FallbackRates
    /\ CallIdle
    /\ ValidateIdle /\ DirectionIdle /\ FormatIdle

config == <<isTermux, sources, priority, maxRetries, fallbackRate>>

\* the caller of trySource receives r for chain[idx]
Finish(r) ==
    IF Stops(r)
    THEN /\ result' = r /\ pc' = "done" /\ UNCHANGED <<idx, retryCount>>
    ELSE IF idx < Len(chain)
    THEN /\ idx' = idx + 1 /\ retryCount' = 0 /\ pc' = "try"
         /\ UNCHANGED result
    ELSE /\ pc' = "done"
         /\ result' = IF call = "getExchangeRate" THEN createFallbackData ELSE r
         /\ UNCHANGED <<idx, retryCount>>

\* Scraper.getExchangeRate: picks the Termux or the desktop strategy
getExchangeRate ==
    /\ pc = "idle"
    /\ call' = "getExchangeRate"
    /\ chain' = Enabled(IF isTermux THEN getExchangeRateTermux
                                    ELSE getExchangeRateDesktop)
    /\ idx' = 1 /\ retryCount' = 0 /\ trace' = <<>> /\ raised' = FALSE
    /\ IF chain' = <<>>
       THEN pc' = "done" /\ result' = createFallbackData
       ELSE pc' = "try" /\ result' = Null
    /\ UNCHANGED <<config, validateVars, directionVars, formatVars, updaterVars>>

\* UI.directSource (ui.js 60-88): one configured source through trySource;
\* a source that is not enabled, or a null result, ends in its error branch
directSource(name) ==
    /\ pc = "idle"
    /\ call' = "directSource"
    /\ chain' = Enabled(<<name>>)
    /\ idx' = 1 /\ retryCount' = 0 /\ trace' = <<>> /\ raised' = FALSE
    /\ result' = Null
    /\ pc' = IF chain' = <<>> THEN "done" ELSE "try"
    /\ UNCHANGED <<config, validateVars, directionVars, formatVars, updaterVars>>

Attempt(r) == [source |-> chain[idx], retry |-> retryCount,
               outcome |-> r.kind, ret |-> r,
               fetched |-> Fetched(chain[idx])]

\* trySource returns null for a web source on Termux, no fetcher is called
trySourceSkip ==
    /\ pc = "try"
    /\ trySourceSkips(chain[idx])
    /\ Finish(Null)
    /\ UNCHANGED <<config, call, chain, trace, raised, validateVars, directionVars, formatVars, updaterVars>>

\* trySource: the fetcher returns a sample
trySourceSample ==
    /\ pc = "try"
    /\ ~trySourceSkips(chain[idx])
    /\ \E resp \in Responses :
         LET r == trySourceDispatch(chain[idx], resp) IN
         /\ r.kind = "sample"
         /\ trace' = Append(trace, Attempt(r))
         /\ Finish(r)
    /\ UNCHANGED <<config, call, chain, raised, validateVars, directionVars, formatVars, updaterVars>>

\* trySource: the fetcher caught its error and returns null
trySourceNull ==
    /\ pc = "try"
    /\ ~trySourceSkips(chain[idx])
    /\ \E resp \in Responses :
         LET r == trySourceDispatch(chain[idx], resp) IN
         /\ r.kind = "null"
         /\ trace' = Append(trace, Attempt(r))
         /\ Finish(r)
    /\ UNCHANGED <<config, call, chain, raised, validateVars, directionVars, formatVars, updaterVars>>

\* trySource: the fetcher throws and the catch block decides
trySourceCaught ==
    /\ pc = "try"
    /\ ~trySourceSkips(chain[idx])
    /\ \E resp \in Responses :
         LET r == trySourceDispatch(chain[idx], resp) IN
         /\ r.kind = "throw"
         /\ trace' = Append(trace, Attempt(r))
         /\ CASE trySourceCatch(retryCount) = "retry" ->
                   /\ pc' = "delay"
                   /\ UNCHANGED <<idx, retryCount, result, raised>>
              [] trySourceCatch(retryCount) = "null" ->
                   /\ Finish(Null)
                   /\ UNCHANGED raised
              [] OTHER ->
                   /\ pc' = "done" /\ raised' = TRUE
                   /\ UNCHANGED <<idx, retryCount, result>>
    /\ UNCHANGED <<config, call, chain, validateVars, directionVars, formatVars, updaterVars>>

\* await this.delay(retryDelay); return this.trySource(source, retryCount + 1)
delay ==
    /\ pc = "delay"
    /\ pc' = "try"
    /\ retryCount' = retryCount + 1
    /\ UNCHANGED <<config, call, chain, idx, trace, result, raised, validateVars, directionVars, formatVars, updaterVars>>

\* the caller takes the result (ui.js keeps it as currentExchangeData until
\* the next call); the Scraper is ready for the next call
Return ==
    /\ pc = "done"
    /\ pc' = "idle" /\ call' = "none" /\ chain' = <<>> /\ idx' = 1
    /\ retryCount' = 0 /\ trace' = <<>>
    /\ UNCHANGED <<result, raised, config, validateVars, directionVars, formatVars, updaterVars>>

Next ==
    \/ getExchangeRate
    \/ \E name \in {Google, Bacen} : directSource(name)
    \/ trySourceSkip
    \/ trySourceSample
    \/ trySourceNull
    \/ trySourceCaught
    \/ delay
    \/ Return

Spec == Init /\ [][Next]_vars

----------------------------------------------------------------------------
(* Properties of the resolver *)

Returned == pc = "done" /\ call = "getExchangeRate"

Tried(s)      == \E i \in 1..Len(trace) : trace[i].source = s
Attempts(s)   == Cardinality({i \in 1..Len(trace) : trace[i].source = s})
Yielded       == \E i \in 1..Len(trace) : trace[i].outcome = "sample"
PosIn(seq, s) == CHOOSE i \in 1..Len(seq) : seq[i] = s

\* C1: whatever the fetchers answer (sample, null, exception), getExchangeRate
\* never rejects, and when it has returned its value is a sample whose source
\* is an enabled configured source or "Fallback".
C1_NeverFails ==
    /\ ~raised
    /\ Returned => /\ result.kind = "sample"
                   /\ result.source \in sources \cup {"Fallback"}

\* a call that met an exception and a null on the way and still returned a
\* sample from a configured source
C1_Witness ==
    /\ Returned
    /\ \E i \in 1..Len(trace) : trace[i].outcome = "throw"
    /\ \E i \in 1..Len(trace) : trace[i].outcome = "null"
    /\ result.source \in sources

\* C2: getExchangeRate returns the Fallback sample exactly when no fetcher
\* invocation of the call yielded a sample, and the Fallback sample is
\* {source "Fallback", rate fallbackRate, direction stable, percent "0.00%"}.
C2_FallbackIff ==
    Returned =>
        /\ (result.source = "Fallback") <=> ~Yielded
        /\ result.source = "Fallback" =>
              /\ result.rate = Num(fallbackRate)
              /\ result.direction = "stable"
              /\ result.percent = "0.00%"

\* the Fallback sample returned after three sources were tried in vain
C2_Witness ==
    /\ Returned /\ result.source = "Fallback"
    /\ Tried(Google) /\ Tried(Bacen) /\ Tried(Awesome)

C4_PriorityOrder ==
    (~isTermux /\ call = "getExchangeRate") =>
        /\ \A i, j \in 1..Len(trace) :
              i < j => priority[trace[i].source] <= priority[trace[j].source]
        /\ (pc = "done" /\ result.source = "Fallback") =>
              \A s \in sources : Tried(s)

\* C5 (as claimed): a failed attempt, whether the fetcher returned null or
\* threw, is followed by another attempt on the same source as long as
\* fewer than maxRetries + 1 attempts have been made on it.
C5_EveryFailureRetried ==
    call = "getExchangeRate" =>
        \A i \in 1..Len(trace) :
            (trace[i].outcome # "sample" /\ trace[i].retry < maxRetries
               /\ (i < Len(trace) \/ pc = "done"))
            => (i < Len(trace) /\ trace[i+1].source = trace[i].source)

\* C6: no source is attempted more than maxRetries + 1 times in one call.
C6_AttemptBound ==
    \A s \in SourceNames : Attempts(s) <= maxRetries + 1

\* a source was attempted maxRetries + 1 times, with at least one retry
C6_Witness ==
    /\ call = "getExchangeRate" /\ maxRetries >= 1
    /\ \E s \in SourceNames : Attempts(s) = maxRetries + 1

\* C7: on Termux no web source is ever fetched, getExchangeRate tries
\* Banco Central before Awesome, and both (when enabled) have been tried when
\* the Fallback sample is returned.
C7_TermuxApiOnly ==
    isTermux =>
        /\ \A i \in 1..Len(trace) :
              ~(SourceType(trace[i].source) = "web" /\ trace[i].fetched)
        /\ call = "getExchangeRate" =>
              /\ \A i \in 1..Len(trace) : trace[i].source \in {Bacen, Awesome}
              /\ \A i, j \in 1..Len(trace) :
                    (trace[i].source = Awesome /\ trace[j].source = Bacen) => j < i
              /\ (pc = "done" /\ result.source = "Fallback") =>
                    \A s \in sources \cap {Bacen, Awesome} : Tried(s)

\* Termux: Banco Central then Awesome were tried, then Fallback, with Google
\* Finance enabled in the configuration
C7_Witness ==
    /\ isTermux /\ Returned /\ result.source = "Fallback"
    /\ Google \in sources
    /\ Len(trace) = 2 /\ trace[1].source = Bacen /\ trace[2].source = Awesome

\* C8: a returned sample that is not the Fallback sample has a finite rate
\* with 1 < rate < 10.
C8_RateInRange ==
    (pc = "done" /\ result.kind = "sample" /\ result.source # "Fallback") =>
        /\ result.rate.t = "num"
        /\ result.rate.v > 100
        /\ result.rate.v < 1000

\* a Banco Central sample (rate taken from the JSON as is) was returned while
\* the configured fallback rate is outside the bound
C8_Witness ==
    /\ Returned /\ result.source = Bacen
    /\ fallbackRate >= 1000

----------------------------------------------------------------------------
(* isValidRate on its own *)

RateInputs == {Num(n) : n \in 0..MaxRateInput}
              \cup {Num(0 - 520), NaN, Infinity, NegInfinity, Missing}

DefaultPriority == [s \in SourceNames |->
                       IF s = Google THEN 1 ELSE IF s = Bacen THEN 2 ELSE 3]

DefaultConfig ==
    /\ isTermux = FALSE /\ sources = SourceNames /\ priority = DefaultPriority
    /\ maxRetries = 1 /\ fallbackRate = 550

InitValidate ==
    /\ DefaultConfig /\ CallIdle
    /\ UpdaterIdle /\ disk = EmptyDocument
    /\ vRate \in RateInputs /\ vDone = FALSE /\ vResult = Missing
    /\ DirectionIdle /\ FormatIdle

\* one application of isValidRate to the input
Validate ==
    /\ ~vDone
    /\ vDone' = TRUE
    /\ vResult' = isValidRate(vRate)
    /\ UNCHANGED <<vRate, resolverVars, directionVars, formatVars, updaterVars>>

NextValidate == Validate

SpecValidate == InitValidate /\ [][NextValidate]_vars

\* C9: isValidRate accepts (returns a truthy value for) exactly the finite
\* numbers strictly between 1 and 10; in particular it rejects 0.5, 1, 10, 0,
\* NaN and a missing value and accepts 5.2.
C9_ValidExactlyInside ==
    vDone =>
        /\ Truthy(vResult) <=> (vRate.t = "num" /\ vRate.v > 100 /\ vRate.v < 1000)
        /\ vRate \in {Num(50), Num(100), Num(1000), Num(0), NaN, Missing}
              => ~Truthy(vResult)
        /\ vRate = Num(520) => vResult = JsTrue

\* 5.2 was validated and accepted
C9_Witness == vDone /\ vRate = Num(520) /\ Truthy(vResult)

----------------------------------------------------------------------------
(* The Logger's session document (part_001 395-504) *)

\* this.currentSession.sessions.find(s => s.sessionNumber === n): index of
\* the first match, 0 when there is none
FindSession(doc, n) ==
    IF \E i \in 1..Len(doc.sessions) : doc.sessions[i].sessionNumber = n
    THEN CHOOSE i \in 1..Len(doc.sessions) :
            /\ doc.sessions[i].sessionNumber = n
            /\ \A j \in 1..(i-1) : doc.sessions[j].sessionNumber # n
    ELSE 0

\* endTime and duration of a session that has not been stopped (absent fields)
Unset == 0 - 1

\* mutant: session numbers counted from 0
startUpdateSession_zero(doc) ==
    [doc EXCEPT !.sessions = Append(@, [sessionNumber |-> Len(doc.sessions),
                                        startTime |-> now,
                                        updateCount |-> 0,
                                        updates |-> <<>>,
                                        ended |-> FALSE,
                                        endTime |-> Unset,
                                        duration |-> Unset]),
                !.totalUpdates = 0]

\* Logger.startUpdateSession: the document after the push; the number it
\* returns is the length of the new list
startUpdateSession(doc) ==
    [doc EXCEPT !.sessions = Append(@, [sessionNumber |-> Len(doc.sessions) + 1,
                                        startTime |-> now,
                                        updateCount |-> 0,
                                        updates |-> <<>>,
                                        ended |-> FALSE,
                                        endTime |-> Unset,
                                        duration |-> Unset]),
                !.totalUpdates = 0]

\* mutant: the duration is not taken relative to startTime
stopUpdateSession_abs(doc, n) ==
    LET i == FindSession(doc, n) IN
    IF i = 0 THEN doc
    ELSE [doc EXCEPT !.sessions[i].ended = TRUE,
                     !.sessions[i].endTime = now,
                     !.sessions[i].duration = now]

\* Logger.stopUpdateSession: endTime and duration set on the session found
stopUpdateSession(doc, n) ==
    LET i == FindSession(doc, n) IN
    IF i = 0 THEN doc
    ELSE [doc EXCEPT !.sessions[i].ended = TRUE,
                     !.sessions[i].endTime = now,
                     !.sessions[i].duration = now - doc.sessions[i].startTime]

\* mutant: the counter is read before it is incremented
logUpdateNumber_pre(doc, n) ==
    LET i == FindSession(doc, n) IN
    IF i = 0 THEN 0 ELSE doc.sessions[i].updateCount

\* Logger.logUpdate: the update number it returns (0 when no session matches)
logUpdateNumber(doc, n) ==
    LET i == FindSession(doc, n) IN
    IF i = 0 THEN 0 ELSE doc.sessions[i].updateCount + 1

\* mutant: the global counter is incremented before the session is looked up
logUpdate_countFirst(doc, n, exchangeData) ==
    LET i == FindSession(doc, n) IN
    IF i = 0 THEN [doc EXCEPT !.totalUpdates = @ + 1]
    ELSE [doc EXCEPT
            !.sessions[i].updateCount = @ + 1,
            !.totalUpdates = @ + 1,
            !.sessions[i].updates =
                Append(@, [updateNumber |-> doc.sessions[i].updateCount + 1,
                           rate |-> exchangeData.rate,
                           source |-> exchangeData.source,
                           direction |-> exchangeData.variationDirection])]

\* mutant: the new record replaces the records of the session
logUpdate_overwrite(doc, n, exchangeData) ==
    LET i == FindSession(doc, n) IN
    IF i = 0 THEN doc
    ELSE [doc EXCEPT
            !.sessions[i].updateCount = @ + 1,
            !.totalUpdates = @ + 1,
            !.sessions[i].updates =
                <<[updateNumber |-> doc.sessions[i].updateCount + 1,
                   rate |-> exchangeData.rate,
                   source |-> exchangeData.source,
                   direction |-> exchangeData.variationDirection]>>]

\* mutant: the record is numbered with the count before the increment
logUpdate_stale(doc, n, exchangeData) ==
    LET i == FindSession(doc, n) IN
    IF i = 0 THEN doc
    ELSE [doc EXCEPT
            !.sessions[i].updateCount = @ + 1,
            !.totalUpdates = @ + 1,
            !.sessions[i].updates =
                Append(@, [updateNumber |-> doc.sessions[i].updateCount,
                           rate |-> exchangeData.rate,
                           source |-> exchangeData.source,
                           direction |-> exchangeData.variationDirection])]

\* Logger.logUpdate: the document after the call
logUpdate(doc, n, exchangeData) ==
    LET i == FindSession(doc, n) IN
    IF i = 0 THEN doc
    ELSE [doc EXCEPT
            !.sessions[i].updateCount = @ + 1,
            !.totalUpdates = @ + 1,
            !.sessions[i].updates =
                Append(@, [updateNumber |-> doc.sessions[i].updateCount + 1,
                           rate |-> exchangeData.rate,
                           source |-> exchangeData.source,
                           direction |-> exchangeData.variationDirection])]

\* JSON null
JsNull == [t |-> "null", v |-> 0]

\* JSON.stringify of a number: NaN and the infinities are written as null
JSONnumber(x) == IF x.t \in {"nan", "inf", "ninf"} THEN JsNull ELSE x

\* what JSON.parse reads back from JSON.stringify(doc, null, 2): sessions and
\* update records in order, every field kept, rates as JSON numbers
JSONstringify(doc) ==
    [doc EXCEPT !.sessions =
        [i \in 1..Len(doc.sessions) |->
            [doc.sessions[i] EXCEPT !.updates =
                [k \in 1..Len(doc.sessions[i].updates) |->
                    [doc.sessions[i].updates[k] EXCEPT !.rate = JSONnumber(@)]]]]]

\* Logger.generateSessionId: an id not generated before
generateSessionId(k) == "sess_" \o ToString(k)

\* mutant: the fresh document keeps the update total found on disk
newSession_stale(k) ==
    [sessionId |-> generateSessionId(k), totalUpdates |-> disk.totalUpdates,
     sessions |-> <<>>]

\* Logger.loadSession, lines 406-412: the fresh document
newSession(k) ==
    [sessionId |-> generateSessionId(k), totalUpdates |-> 0, sessions |-> <<>>]

\* whether loadSession returns the parsed file (lines 397-399): the file
\* exists and JSON.parse does not throw
Loads(fileState) == fileState = "readable"

\* mutant: the file is never read back
loadSession_fresh(fileState, k) == newSession(k)

\* Logger.loadSession: the parsed file, or the fresh document
loadSession(fileState, k) ==
    IF Loads(fileState) THEN disk ELSE newSession(k)

\* mutant: only the session list is written, the counters on disk are kept
saveSession_sessionsOnly(doc, ok) ==
    IF ok THEN [disk EXCEPT !.sessions = JSONstringify(doc).sessions] ELSE disk

\* mutant: only the newest session is written, after the sessions the file
\* already holds
saveSession_lastSession(doc, ok) ==
    IF ~ok \/ doc.sessions = <<>> THEN disk
    ELSE LET n    == Len(doc.sessions)
             kept == IF Len(disk.sessions) >= n
                     THEN SubSeq(disk.sessions, 1, n - 1)
                     ELSE disk.sessions
         IN [JSONstringify(doc) EXCEPT
                !.sessions = kept \o <<JSONstringify(doc).sessions[n]>>]

\* Logger.saveSession: writeFileSync of the whole document; a failed write
\* is swallowed and leaves the file as it was
saveSession(doc, ok) == IF ok THEN JSONstringify(doc) ELSE disk

\* mutant: the write error escapes saveSession
saveSessionThrows_uncaught(ok) == ~ok

\* Logger.saveSession, lines 433-437: the try/catch swallows the write error
saveSessionThrows(ok) == FALSE

\* one call of saveSession: the write succeeds or fails
write(doc) ==
    \E ok \in BOOLEAN :
        /\ disk' = saveSession(doc, ok)
        /\ written' = ok
        /\ file' = IF ok THEN "readable" ELSE file

\* an operation that does not reach saveSession
noWrite == UNCHANGED <<disk, written, file>>

----------------------------------------------------------------------------
(* The Updater (updater.js) *)

HistoryCap == 1000

\* what getExchangeRate resolves to for a tick
TickSamples == {Sample(Google, Num(520), "up", "0.29%"), createFallbackData}

\* Updater.getVariationFromData: the direction is the one the scraper put
\* in exchangeData.variation
getVariationFromData(exchangeData) ==
    [direction |-> exchangeData.direction, percentChange |-> exchangeData.percent]

\* mutant: the newest entry is dropped instead of the oldest
recordHistory_head(h, entry) ==
    LET pushed == Append(h, entry) IN
    IF Len(pushed) > HistoryCap
    THEN SubSeq(pushed, 1, HistoryCap)
    ELSE pushed

\* Updater.recordHistory: push, then keep the last HistoryCap entries
recordHistory(h, entry) ==
    LET pushed == Append(h, entry) IN
    IF Len(pushed) > HistoryCap
    THEN SubSeq(pushed, Len(pushed) - HistoryCap + 1, Len(pushed))
    ELSE pushed

InitUpdater ==
    /\ DefaultConfig /\ CallIdle /\ ValidateIdle /\ DirectionIdle /\ FormatIdle
    /\ UpdaterIdle /\ disk = EmptyDocument

\* mutant: the already-active guard is missing
startContinuousUpdateRejects_never == FALSE

\* startContinuousUpdate, line 46: if (this.isUpdating) { warn; return; }
startContinuousUpdateRejects == isUpdating

\* mutant: the first performUpdate is left to the timer
startContinuousUpdate_noFirst ==
    /\ op' = "startContinuousUpdate"
    /\ wasUpdating' = isUpdating
    /\ errorLogged' = FALSE
    /\ IF startContinuousUpdateRejects
       THEN /\ warning' = TRUE
            /\ UNCHANGED <<isUpdating, updateInterval, liveTimers,
                           currentSessionNumber, history, previousRate,
                           inflight, ticksStarted, logBlocks, callbacks,
                           currentSession, disk, written, file>>
       ELSE /\ Len(currentSession.sessions) < MaxSessions
            /\ ticksStarted < MaxTicks
            /\ warning' = FALSE
            /\ isUpdating' = TRUE
            /\ currentSession' = startUpdateSession(currentSession)
            /\ write(currentSession')
            /\ currentSessionNumber' = Len(currentSession'.sessions)
            /\ updateInterval' = TRUE
            /\ liveTimers' = liveTimers + 1
            /\ UNCHANGED <<history, previousRate, logBlocks, callbacks,
                           inflight, ticksStarted>>
    /\ UNCHANGED <<now, arg, ret, resolverVars, validateVars, directionVars, formatVars,
                   generated, wasBehind>>

\* mutant: a new start forgets the previous rate
startContinuousUpdate_forgets ==
    /\ op' = "startContinuousUpdate"
    /\ wasUpdating' = isUpdating
    /\ errorLogged' = FALSE
    /\ IF startContinuousUpdateRejects
       THEN /\ warning' = TRUE
            /\ UNCHANGED <<isUpdating, updateInterval, liveTimers,
                           currentSessionNumber, history, previousRate,
                           inflight, ticksStarted, logBlocks, callbacks,
                           currentSession, disk, written, file>>
       ELSE /\ Len(currentSession.sessions) < MaxSessions
            /\ ticksStarted < MaxTicks
            /\ warning' = FALSE
            /\ isUpdating' = TRUE
            /\ currentSession' = startUpdateSession(currentSession)
            /\ write(currentSession')
            /\ currentSessionNumber' = Len(currentSession'.sessions)
            /\ ticksStarted' = ticksStarted + 1
            /\ inflight' = inflight \cup {[id |-> ticksStarted + 1,
                                           startedIn |-> currentSessionNumber']}
            /\ updateInterval' = TRUE
            /\ liveTimers' = liveTimers + 1
            /\ previousRate' = Missing
            /\ UNCHANGED <<history, logBlocks, callbacks>>
    /\ UNCHANGED <<now, arg, ret, resolverVars, validateVars, directionVars, formatVars,
                   generated, wasBehind>>

\* Updater.startContinuousUpdate: guard, new session, first performUpdate
\* up to its await, setInterval
startContinuousUpdate ==
    /\ op' = "startContinuousUpdate"
    /\ wasUpdating' = isUpdating
    /\ errorLogged' = FALSE
    /\ IF startContinuousUpdateRejects
       THEN /\ warning' = TRUE
            /\ UNCHANGED <<isUpdating, updateInterval, liveTimers,
                           currentSessionNumber, history, previousRate,
                           inflight, ticksStarted, logBlocks, callbacks,
                           currentSession, disk, written, file>>
       ELSE /\ Len(currentSession.sessions) < MaxSessions
            /\ ticksStarted < MaxTicks
            /\ warning' = FALSE
            /\ isUpdating' = TRUE
            /\ currentSession' = startUpdateSession(currentSession)
            /\ write(currentSession')
            /\ currentSessionNumber' = Len(currentSession'.sessions)
            /\ ticksStarted' = ticksStarted + 1
            /\ inflight' = inflight \cup {[id |-> ticksStarted + 1,
                                           startedIn |-> currentSessionNumber']}
            /\ updateInterval' = TRUE
            /\ liveTimers' = liveTimers + 1
            /\ UNCHANGED <<history, previousRate, logBlocks, callbacks>>
    /\ UNCHANGED <<now, arg, ret, resolverVars, validateVars, directionVars, formatVars,
                   generated, wasBehind>>

\* mutant: the interval timer is not cleared
stopContinuousUpdate_keepTimer ==
    /\ op' = "stopContinuousUpdate"
    /\ wasUpdating' = isUpdating
    /\ errorLogged' = FALSE
    /\ warning' = FALSE
    /\ UNCHANGED <<updateInterval, liveTimers>>
    /\ IF currentSessionNumber # 0
       THEN /\ currentSession' = stopUpdateSession(currentSession, currentSessionNumber)
            /\ IF FindSession(currentSession, currentSessionNumber) # 0
               THEN write(currentSession')
               ELSE noWrite
       ELSE UNCHANGED currentSession /\ noWrite
    /\ currentSessionNumber' = 0
    /\ isUpdating' = FALSE
    /\ UNCHANGED <<history, previousRate, inflight, ticksStarted, logBlocks,
                   callbacks, now, arg, ret, resolverVars, validateVars, directionVars, formatVars,
                   generated, wasBehind>>

\* mutant: stopping also forgets the previous rate and the history
stopContinuousUpdate_reset ==
    /\ op' = "stopContinuousUpdate"
    /\ wasUpdating' = isUpdating
    /\ errorLogged' = FALSE
    /\ warning' = FALSE
    /\ updateInterval' = FALSE
    /\ liveTimers' = IF updateInterval THEN liveTimers - 1 ELSE liveTimers
    /\ IF currentSessionNumber # 0
       THEN /\ currentSession' = stopUpdateSession(currentSession, currentSessionNumber)
            /\ IF FindSession(currentSession, currentSessionNumber) # 0
               THEN write(currentSession')
               ELSE noWrite
       ELSE UNCHANGED currentSession /\ noWrite
    /\ currentSessionNumber' = 0
    /\ isUpdating' = FALSE
    /\ previousRate' = Missing
    /\ history' = <<>>
    /\ UNCHANGED <<inflight, ticksStarted, logBlocks,
                   callbacks, now, arg, ret, resolverVars, validateVars, directionVars, formatVars,
                   generated, wasBehind>>

\* mutant: the running flag is not cleared
stopContinuousUpdate_keepFlag ==
    /\ op' = "stopContinuousUpdate"
    /\ wasUpdating' = isUpdating
    /\ errorLogged' = FALSE
    /\ warning' = FALSE
    /\ updateInterval' = FALSE
    /\ liveTimers' = IF updateInterval THEN liveTimers - 1 ELSE liveTimers
    /\ IF currentSessionNumber # 0
       THEN /\ currentSession' = stopUpdateSession(currentSession, currentSessionNumber)
            /\ IF FindSession(currentSession, currentSessionNumber) # 0
               THEN write(currentSession')
               ELSE noWrite
       ELSE UNCHANGED currentSession /\ noWrite
    /\ currentSessionNumber' = 0
    /\ UNCHANGED isUpdating
    /\ UNCHANGED <<history, previousRate, inflight, ticksStarted, logBlocks,
                   callbacks, now, arg, ret, resolverVars, validateVars, directionVars, formatVars,
                   generated, wasBehind>>

\* mutant: the number of the closed session is kept as the current one
stopContinuousUpdate_keepNumber ==
    /\ op' = "stopContinuousUpdate"
    /\ wasUpdating' = isUpdating
    /\ errorLogged' = FALSE
    /\ warning' = FALSE
    /\ updateInterval' = FALSE
    /\ liveTimers' = IF updateInterval THEN liveTimers - 1 ELSE liveTimers
    /\ IF currentSessionNumber # 0
       THEN /\ currentSession' = stopUpdateSession(currentSession, currentSessionNumber)
            /\ IF FindSession(currentSession, currentSessionNumber) # 0
               THEN write(currentSession')
               ELSE noWrite
       ELSE UNCHANGED currentSession /\ noWrite
    /\ UNCHANGED currentSessionNumber
    /\ isUpdating' = FALSE
    /\ UNCHANGED <<history, previousRate, inflight, ticksStarted, logBlocks,
                   callbacks, now, arg, ret, resolverVars, validateVars, directionVars, formatVars,
                   generated, wasBehind>>

\* Updater.stopContinuousUpdate
stopContinuousUpdate ==
    /\ op' = "stopContinuousUpdate"
    /\ wasUpdating' = isUpdating
    /\ errorLogged' = FALSE
    /\ warning' = FALSE
    /\ updateInterval' = FALSE
    /\ liveTimers' = IF updateInterval THEN liveTimers - 1 ELSE liveTimers
    /\ IF currentSessionNumber # 0
       THEN /\ currentSession' = stopUpdateSession(currentSession, currentSessionNumber)
            /\ IF FindSession(currentSession, currentSessionNumber) # 0
               THEN write(currentSession')
               ELSE noWrite
       ELSE UNCHANGED currentSession /\ noWrite
    /\ currentSessionNumber' = 0
    /\ isUpdating' = FALSE
    /\ UNCHANGED <<history, previousRate, inflight, ticksStarted, logBlocks,
                   callbacks, now, arg, ret, resolverVars, validateVars, directionVars, formatVars,
                   generated, wasBehind>>

\* the setInterval callback, one interval later: performUpdate up to its
\* await
timerFires ==
    /\ liveTimers > 0
    /\ ticksStarted < MaxTicks
    /\ op' = "timerFires"
    /\ wasUpdating' = isUpdating
    /\ errorLogged' = FALSE
    /\ now' = now + 1
    /\ warning' = FALSE
    /\ ticksStarted' = ticksStarted + 1
    /\ inflight' = inflight \cup {[id |-> ticksStarted + 1,
                                   startedIn |-> currentSessionNumber]}
    /\ UNCHANGED <<isUpdating, updateInterval, liveTimers, currentSessionNumber,
                   history, previousRate, logBlocks, callbacks, currentSession,
                   disk, written, file, arg, ret, resolverVars, validateVars, directionVars, formatVars,
                   generated, wasBehind>>

\* mutant: an error in a tick switches the scheduler off
performUpdateCatch_stops(running) == FALSE

\* performUpdate, the catch block (lines 128-131): the error is logged, null
\* is returned, this.isUpdating keeps its value
performUpdateCatch(running) == running

\* mutant: the callback is not given the update number
onUpdateArgs_noNumber(exchangeData, updateNumber, id) ==
    [rate |-> exchangeData.rate, updateNumber |-> 0, tick |-> id]

\* performUpdate, line 123: onUpdate(exchangeData, updateNumber)
onUpdateArgs(exchangeData, updateNumber, id) ==
    [rate |-> exchangeData.rate, updateNumber |-> updateNumber, tick |-> id]

\* Updater.performUpdate from the point where getExchangeRate resolves:
\* variation, history, previousRate, logUpdate, text log, callback.  An
\* exception (of the callback, or one that escaped logUpdate) is caught at
\* line 128, logged, and ends the tick.
performUpdate ==
    /\ op' = "performUpdate"
    /\ wasUpdating' = isUpdating
    /\ warning' = FALSE
    /\ \E t \in inflight, data \in TickSamples, ok \in BOOLEAN,
          logOk \in BOOLEAN, cbThrows \in BOOLEAN :
         LET variationInfo == getVariationFromData(data)
             exchangeData  == [rate |-> data.rate, source |-> data.source,
                               variationDirection |-> variationInfo.direction,
                               previousRate |-> previousRate]
             updateNumber  == logUpdateNumber(currentSession, currentSessionNumber)
             threw         == updateNumber # 0 /\ saveSessionThrows(ok)
         IN
         /\ inflight' = inflight \ {t}
         /\ history' = recordHistory(history, exchangeData)
         /\ previousRate' = data.rate
         /\ currentSession' = logUpdate(currentSession, currentSessionNumber, exchangeData)
         /\ IF updateNumber # 0
            THEN /\ disk' = saveSession(currentSession', ok)
                 /\ written' = ok
                 /\ file' = IF ok THEN "readable" ELSE file
            ELSE noWrite
         /\ logBlocks' = IF logOk /\ ~threw
                         THEN Append(logBlocks, [source |-> data.source,
                                                 session |-> currentSessionNumber,
                                                 update |-> updateNumber])
                         ELSE logBlocks
         /\ callbacks' = IF threw THEN callbacks
                         ELSE Append(callbacks,
                                     onUpdateArgs(exchangeData, updateNumber, t.id))
         /\ errorLogged' = (threw \/ cbThrows)
         /\ isUpdating' = IF threw \/ cbThrows
                          THEN performUpdateCatch(isUpdating)
                          ELSE isUpdating
    /\ UNCHANGED <<updateInterval, liveTimers, currentSessionNumber,
                   ticksStarted, now, arg, ret, resolverVars, validateVars,
                   directionVars, formatVars, generated, wasBehind>>

NextUpdater ==
    \/ startContinuousUpdate
    \/ stopContinuousUpdate
    \/ timerFires
    \/ performUpdate

SpecUpdater == InitUpdater /\ [][NextUpdater]_vars

\* C10: startContinuousUpdate while the scheduler is running only logs the
\* warning: session number, session document, file on disk, timers, ticks in
\* flight, history and callbacks all stay as they were.
C10_StartWhileRunningNoop ==
    [][(isUpdating /\ op' = "startContinuousUpdate") =>
          /\ warning'
          /\ UNCHANGED <<isUpdating, updateInterval, liveTimers,
                         currentSessionNumber, currentSession, disk, inflight,
                         ticksStarted, history, previousRate, logBlocks,
                         callbacks>>]_vars

\* startContinuousUpdate was rejected while one timer was armed, one session
\* was open and a tick had already been recorded
C10_Witness ==
    /\ op = "startContinuousUpdate" /\ warning
    /\ isUpdating /\ liveTimers = 1 /\ currentSessionNumber = 1
    /\ Len(callbacks) > 0

----------------------------------------------------------------------------
(* The Logger called directly (part_001 444-504) *)

RECURSIVE CountRecords(_)
\* number of update records stored in a list of sessions
CountRecords(sessions_) ==
    IF sessions_ = <<>> THEN 0
    ELSE Len(Head(sessions_).updates) + CountRecords(Tail(sessions_))

\* the exchangeData objects handed to logUpdate
LoggedData == {[rate |-> d.rate, source |-> d.source,
                variationDirection |-> d.direction] : d \in TickSamples}

\* session numbers a caller may pass: null (0), existing ones, and (while
\* fewer than MaxSessions sessions exist) unknown ones
SessionArgs == 0..MaxSessions

InitLogger ==
    /\ DefaultConfig /\ CallIdle /\ ValidateIdle /\ DirectionIdle /\ FormatIdle
    /\ UpdaterIdle /\ disk = EmptyDocument

loggerFrame == <<isUpdating, updateInterval, liveTimers, currentSessionNumber,
                 history, previousRate, inflight, ticksStarted, logBlocks,
                 callbacks, warning, wasUpdating, errorLogged, resolverVars, validateVars, directionVars, formatVars,
                   generated>>

\* logger.startUpdateSession()
callStartUpdateSession ==
    /\ Len(currentSession.sessions) < MaxSessions
    /\ op' = "startUpdateSession"
    /\ arg' = 0
    /\ currentSession' = startUpdateSession(currentSession)
    /\ ret' = Len(currentSession.sessions) + 1
    /\ write(currentSession')
    /\ UNCHANGED <<now, loggerFrame>>

\* logger.logUpdate(n, exchangeData)
callLogUpdate ==
    \E n \in SessionArgs, exchangeData \in LoggedData :
        /\ \/ FindSession(currentSession, n) = 0
           \/ CountRecords(currentSession.sessions) < MaxLogged
        /\ op' = "logUpdate"
        /\ arg' = n
        /\ ret' = logUpdateNumber(currentSession, n)
        /\ currentSession' = logUpdate(currentSession, n, exchangeData)
        /\ IF FindSession(currentSession, n) # 0
           THEN write(currentSession')
           ELSE noWrite
        /\ UNCHANGED <<now, loggerFrame>>

\* logger.stopUpdateSession(n)
callStopUpdateSession ==
    \E n \in SessionArgs :
        /\ op' = "stopUpdateSession"
        /\ arg' = n
        /\ ret' = 0
        /\ currentSession' = stopUpdateSession(currentSession, n)
        /\ IF FindSession(currentSession, n) # 0
           THEN write(currentSession')
           ELSE noWrite
        /\ UNCHANGED <<now, loggerFrame>>

\* the clock moves on between two calls
timePasses ==
    /\ now < MaxTime
    /\ now' = now + 1
    /\ op' = "timePasses"
    /\ UNCHANGED <<arg, ret, currentSession, disk, written, file, loggerFrame>>

\* whether the file lacks part of the document as the call is made
Behind == wasBehind' = (disk # currentSession)

NextLogger ==
    \/ callStartUpdateSession /\ Behind
    \/ callLogUpdate /\ Behind
    \/ callStopUpdateSession /\ Behind
    \/ timePasses /\ Behind

SpecLogger == InitLogger /\ [][NextLogger]_vars

----------------------------------------------------------------------------
(* The Logger across process restarts (part_001 370-416): sessions are   *)
(* started and updates logged, the process exits, the next one reloads.    *)

InitRestart ==
    /\ DefaultConfig /\ CallIdle /\ ValidateIdle /\ DirectionIdle /\ FormatIdle
    /\ UpdaterIdle /\ disk = EmptyDocument

restartFrame == <<isUpdating, updateInterval, liveTimers, currentSessionNumber,
                  history, previousRate, inflight, ticksStarted, logBlocks,
                  callbacks, warning, wasUpdating, errorLogged, now, arg,
                  resolverVars, validateVars, directionVars, formatVars,
                  wasBehind>>

\* the process is running: it has not exited since the Logger was built
Running == op # "exit"

\* the process ends; before the next run logs/session.json is left as it
\* is, deleted, or left with content JSON.parse rejects
exit ==
    /\ Running
    /\ op' = "exit"
    /\ \E st \in {file, "absent", "unreadable"} : file' = st
    /\ UNCHANGED <<currentSession, disk, written, generated, ret, restartFrame>>

\* a new process is started: the Logger constructor calls loadSession, which
\* saves the document only when it had to create it
restart ==
    /\ ~Running
    /\ Loads(file) \/ generated < MaxGenerated
    /\ op' = "loadSession"
    /\ ret' = 0
    /\ currentSession' = loadSession(file, generated + 1)
    /\ IF Loads(file)
       THEN generated' = generated /\ noWrite
       ELSE generated' = generated + 1 /\ write(currentSession')
    /\ UNCHANGED restartFrame

NextRestart ==
    \/ Running /\ callStartUpdateSession /\ UNCHANGED wasBehind
    \/ Running /\ callLogUpdate /\ UNCHANGED wasBehind
    \/ exit
    \/ restart

SpecRestart == InitRestart /\ [][NextRestart]_vars

----------------------------------------------------------------------------
(* recordHistory around the cap (updater.js 181-198) *)

\* rate of the i-th sample of a long run, in hundredths, within 1.01 .. 9.99
RunRate(i) == Num(101 + (i % 899))

\* the history buffer after n ticks
Filled(n) ==
    [i \in 1..n |-> [rate |-> RunRate(i), source |-> Bacen,
                     variationDirection |-> "stable",
                     previousRate |-> IF i = 1 THEN Missing ELSE RunRate(i - 1)]]

InitHistory ==
    /\ DefaultConfig /\ CallIdle /\ ValidateIdle /\ DirectionIdle /\ FormatIdle
    /\ \E n \in {0, HistoryCap - 1, HistoryCap} :
          /\ history = Filled(n)
          /\ previousRate = IF n = 0 THEN Missing ELSE RunRate(n)
    /\ isUpdating = FALSE /\ updateInterval = FALSE /\ liveTimers = 0
    /\ currentSessionNumber = 0
    /\ inflight = {} /\ ticksStarted = 0 /\ logBlocks = <<>>
    /\ callbacks = <<>> /\ op = "constructor" /\ warning = FALSE
    /\ wasUpdating = FALSE /\ errorLogged = FALSE
    /\ currentSession = EmptyDocument /\ disk = EmptyDocument
    /\ written = TRUE /\ file = "readable" /\ generated = 1
    /\ now = 0 /\ arg = 0 /\ ret = 0 /\ wasBehind = FALSE

\* performUpdate, lines 102-111: the sample is completed, pushed to the
\* history and becomes the previous rate
callRecordHistory ==
    /\ now < MaxPushes
    /\ now' = now + 1
    /\ op' = "recordHistory"
    /\ \E data \in TickSamples :
          LET exchangeData == [rate |-> data.rate, source |-> data.source,
                               variationDirection |->
                                   getVariationFromData(data).direction,
                               previousRate |-> previousRate]
          IN /\ history' = recordHistory(history, exchangeData)
             /\ previousRate' = data.rate
    /\ UNCHANGED <<isUpdating, updateInterval, liveTimers, currentSessionNumber,
                   inflight, ticksStarted, logBlocks, callbacks, warning,
                   wasUpdating, errorLogged, currentSession, disk, written,
                   file, generated, arg, ret, wasBehind, resolverVars,
                   validateVars, directionVars, formatVars>>

NextHistory == callRecordHistory

SpecHistory == InitHistory /\ [][NextHistory]_vars

----------------------------------------------------------------------------
(* findValue and determineDirection (scraper.js 422-482).  A text is a     *)
(* sequence of one-character strings.                                      *)

Digits == {"0", "1", "2", "3", "4", "5", "6", "7", "8", "9"}

\* the character U+2212 (minus sign), which the page uses for negative values
MinusSign == "U+2212"

RECURSIVE DigitsEnd(_, _)
\* first position from i on that does not hold a digit
DigitsEnd(text, i) ==
    IF i <= Len(text) /\ text[i] \in Digits THEN DigitsEnd(text, i + 1) ELSE i

\* /[-−+]?\d+[,.]?\d*/ anchored at position i: the position after the match,
\* 0 when there is no match at i
MatchEnd(text, i) ==
    LET j == IF text[i] \in {"-", MinusSign, "+"} THEN i + 1 ELSE i
        k == DigitsEnd(text, j)
    IN IF k = j THEN 0
       ELSE IF k <= Len(text) /\ text[k] \in {",", "."}
       THEN DigitsEnd(text, k + 1)
       ELSE k

RECURSIVE Match(_, _)
\* text.match(/[-−+]?\d+[,.]?\d*/): the leftmost match, <<>> when null
Match(text, i) ==
    IF i > Len(text) THEN <<>>
    ELSE IF MatchEnd(text, i) # 0 THEN SubSeq(text, i, MatchEnd(text, i) - 1)
    ELSE Match(text, i + 1)

RECURSIVE Replace(_, _, _)
\* String.prototype.replace with a string pattern: the first occurrence only
Replace(text, a, b) ==
    IF text = <<>> THEN <<>>
    ELSE IF Head(text) = a THEN <<b>> \o Tail(text)
    ELSE <<Head(text)>> \o Replace(Tail(text), a, b)

\* the literal '0.0000'
ZeroValue == <<"0", ".", "0", "0", "0", "0">>

RECURSIVE findValue(_)
\* Scraper.findValue: the first selector whose element has a matching text
\* decides; elements is the list of what container.$ found per selector
findValue(elements) ==
    IF elements = <<>> THEN ZeroValue
    ELSE LET el == Head(elements)
             m  == IF el.found THEN Match(el.text, 1) ELSE <<>>
         IN IF m # <<>>
            THEN Replace(Replace(m, MinusSign, "-"), ",", ".")
            ELSE findValue(Tail(elements))

\* ariaLabel.includes(word), on a label given as its list of words
Includes(label, word) == \E i \in 1..Len(label.words) : label.words[i] = word

\* Scraper.determineDirection
determineDirection(value, label) ==
    IF value # <<>> /\ value # ZeroValue
    THEN IF Head(value) = "-" THEN "down" ELSE "up"
    ELSE IF label.state = "label"
    THEN IF Includes(label, "Diminuiu") \/ Includes(label, "down")
              \/ Includes(label, "fall")
         THEN "down"
         ELSE IF Includes(label, "Aumentou") \/ Includes(label, "up")
                   \/ Includes(label, "rise")
         THEN "up"
         ELSE "stable"
    ELSE "stable"

NoElement == [found |-> FALSE, text |-> <<>>]
Element(text) == [found |-> TRUE, text |-> text]

\* texts of the value element on the page
ValueTexts ==
    { <<"+", "0", ",", "0", "1", "5", "0">>,
      <<"-", "0", ",", "0", "0", "7", "5">>,
      <<MinusSign, "0", ",", "0", "0", "7", "5">>,
      <<"0", ",", "0", "1", "5", "0">>,
      <<"(", "+", "1", ",", "2", ")">>,
      <<"0">>,
      <<"0", ",", "0", "0">>,
      <<"0", ".", "0", "0">>,
      <<"0", ",", "0", "0", "0", "0">>,
      <<"+", "0", ",", "0", "0", "0", "0">>,
      <<"R", "$">>,
      <<>> }

\* the [jsname="Fe7oBc"] element: missing, failing, without aria-label, or
\* with one of these labels
AriaLabels ==
    { [state |-> "absent", words |-> <<>>],
      [state |-> "throws", words |-> <<>>],
      [state |-> "noAttribute", words |-> <<>>],
      [state |-> "label", words |-> <<"Aumentou", "0,29%">>],
      [state |-> "label", words |-> <<"Diminuiu", "0,14%">>],
      [state |-> "label", words |-> <<"Sem", "alteracao">>] }

\* what the four value selectors find: the first two vary, the last two
\* find nothing
Pages ==
    { <<a, b, NoElement, NoElement>> :
        a \in {Element(t) : t \in ValueTexts} \cup {NoElement},
        b \in {Element(<<"-", "0", ",", "0", "0", "7", "5">>), NoElement} }

InitDirection ==
    /\ DefaultConfig /\ CallIdle /\ ValidateIdle /\ FormatIdle
    /\ UpdaterIdle /\ disk = EmptyDocument
    /\ dTexts \in Pages /\ dLabel \in AriaLabels
    /\ dDone = FALSE /\ dValue = <<>> /\ dDirection = ""

\* Scraper.getVariationInfo, lines 380-386, on a page whose main container
\* was found
getVariationInfo ==
    /\ ~dDone
    /\ dDone' = TRUE
    /\ dValue' = findValue(dTexts)
    /\ dDirection' = determineDirection(dValue', dLabel)
    /\ UNCHANGED <<dTexts, dLabel, resolverVars, validateVars, formatVars,
                   updaterVars>>

NextDirection == getVariationInfo

SpecDirection == InitDirection /\ [][NextDirection]_vars

----------------------------------------------------------------------------
(* Properties of the scheduler (SpecUpdater) *)

\* the ticks that a step put in flight
NewTicks == inflight' \ inflight

\* C11: startContinuousUpdate from Idle makes the scheduler Running, opens a
\* new session, starts exactly one performUpdate at once, in that new
\* session, and arms the interval timer; the timer stays armed while the
\* scheduler is Running, and each expiry starts exactly one more tick.
C11_StartFromIdle ==
    /\ [](isUpdating => (liveTimers = 1 /\ updateInterval))
    /\ [][/\ (~isUpdating /\ op' = "startContinuousUpdate") =>
               /\ isUpdating'
               /\ Len(currentSession'.sessions) = Len(currentSession.sessions) + 1
               /\ currentSessionNumber' = Len(currentSession'.sessions)
               /\ ~currentSession'.sessions[currentSessionNumber'].ended
               /\ Cardinality(NewTicks) = 1
               /\ \A t \in NewTicks : t.startedIn = currentSessionNumber'
               /\ inflight \subseteq inflight'
               /\ liveTimers' = 1
          /\ op' = "timerFires" =>
               /\ isUpdating /\ isUpdating'
               /\ Cardinality(NewTicks) = 1
               /\ \A t \in NewTicks : t.startedIn = currentSessionNumber
               /\ inflight \subseteq inflight']_vars

\* the second session was just opened from Idle with its first tick in flight
C11_Witness ==
    /\ op = "startContinuousUpdate" /\ ~warning /\ ~wasUpdating
    /\ isUpdating /\ currentSessionNumber = 2 /\ liveTimers = 1
    /\ \E t \in inflight : t.startedIn = 2

\* C12: stopContinuousUpdate from Running clears the timer, stamps endTime
\* and duration on the current session and makes the scheduler Idle without
\* touching the ticks in flight; while Idle no timer is armed, so no tick
\* starts before the next startContinuousUpdate.
C12_StopFromRunning ==
    /\ [](~isUpdating => (liveTimers = 0 /\ ~updateInterval))
    /\ [][/\ (isUpdating /\ op' = "stopContinuousUpdate") =>
               /\ ~isUpdating' /\ liveTimers' = 0 /\ ~updateInterval'
               /\ currentSessionNumber' = 0
               /\ Len(currentSession'.sessions) = Len(currentSession.sessions)
               /\ currentSession'.sessions[currentSessionNumber].ended
               /\ currentSession'.sessions[currentSessionNumber].endTime = now
               /\ currentSession'.sessions[currentSessionNumber].duration
                     = now - currentSession.sessions[currentSessionNumber].startTime
               /\ inflight' = inflight
          /\ (~isUpdating /\ op' # "startContinuousUpdate") =>
               NewTicks = {}]_vars

\* a tick that was in flight when the scheduler was stopped completed later,
\* with the scheduler Idle and its session closed after one interval
C12_Witness ==
    /\ op = "performUpdate" /\ ~isUpdating /\ ~wasUpdating
    /\ Len(currentSession.sessions) = 1
    /\ currentSession.sessions[1].ended
    /\ currentSession.sessions[1].duration = 1

\* C13: stopContinuousUpdate while Idle changes nothing: session document,
\* file on disk, history, previousRate, scheduler flags, timers and ticks in
\* flight are as before.
C13_StopWhileIdleNoop ==
    [][(~isUpdating /\ op' = "stopContinuousUpdate") =>
          UNCHANGED <<currentSession, disk, history, previousRate, isUpdating,
                      updateInterval, liveTimers, currentSessionNumber,
                      inflight, ticksStarted, logBlocks, callbacks>>]_vars

\* stop was called while Idle, after a session had run and recorded an update
C13_Witness ==
    /\ op = "stopContinuousUpdate" /\ ~wasUpdating /\ ~isUpdating
    /\ Len(currentSession.sessions) >= 1
    /\ Len(history) >= 1 /\ previousRate # Missing

\* C14 (as claimed): at most one performUpdate execution is in progress.
C14_NoOverlap == Cardinality(inflight) <= 1

\* C15 (as claimed): a fetch that resolves after the scheduler was stopped
\* is discarded: no update record, no text log block, no callback.
C15_LateResultDiscarded ==
    [][(op' = "performUpdate" /\ ~isUpdating) =>
          /\ currentSession' = currentSession
          /\ logBlocks' = logBlocks
          /\ callbacks' = callbacks]_vars

----------------------------------------------------------------------------
(* Properties of the Logger (SpecLogger) *)

Numbered(doc) ==
    \A i \in 1..Len(doc.sessions) : doc.sessions[i].sessionNumber = i

\* C16: startUpdateSession appends one session, numbered with the previous
\* count plus one, and returns that number; the i-th session of the document,
\* in memory and on disk, always has sessionNumber i.
C16_SessionNumbers ==
    /\ [](Numbered(currentSession) /\ Numbered(disk))
    /\ [][op' = "startUpdateSession" =>
            /\ ret' = Len(currentSession.sessions) + 1
            /\ Len(currentSession'.sessions) = Len(currentSession.sessions) + 1
            /\ SubSeq(currentSession'.sessions, 1, Len(currentSession.sessions))
                  = currentSession.sessions
            /\ currentSession'.sessions[ret'].sessionNumber = ret']_vars

\* the second startUpdateSession returned 2 and reached the disk
C16_Witness ==
    /\ op = "startUpdateSession" /\ ret = 2
    /\ Len(currentSession.sessions) = 2 /\ disk = currentSession

\* C17: logUpdate on an existing session returns the number of records that
\* session then holds (1 for its first update, k for its k-th), whatever the
\* other sessions hold, and the k-th record of a session has updateNumber k.
C17_PerSessionNumbering ==
    /\ \A i \in 1..Len(currentSession.sessions) :
          \A k \in 1..Len(currentSession.sessions[i].updates) :
              currentSession.sessions[i].updates[k].updateNumber = k
    /\ (op = "logUpdate" /\ FindSession(currentSession, arg) # 0) =>
          ret = Len(currentSession.sessions[arg].updates)

\* the first logUpdate of session 2 returned 1 although session 1 had updates
C17_Witness ==
    /\ op = "logUpdate" /\ arg = 2 /\ ret = 1
    /\ Len(currentSession.sessions) = 2
    /\ Len(currentSession.sessions[1].updates) >= 1

\* C18 (as claimed): totalUpdates is the number of update records stored
\* over all sessions.
C18_TotalIsRunningCount ==
    currentSession.totalUpdates = CountRecords(currentSession.sessions)

\* C19: logUpdate with a session number that matches no session returns 0
\* and leaves the document and the file untouched.
C19_UnknownSessionNoop ==
    [][(op' = "logUpdate" /\ FindSession(currentSession, arg') = 0) =>
          /\ ret' = 0
          /\ currentSession' = currentSession
          /\ disk' = disk]_vars

\* logUpdate was called with an unknown number while a session existed and
\* the file lagged behind the document
C19_Witness ==
    /\ op = "logUpdate" /\ ret = 0 /\ arg = 2
    /\ Len(currentSession.sessions) = 1
    /\ disk # currentSession

\* C20: stopUpdateSession stamps endTime = now and duration = endTime -
\* startTime on the session with the given number and changes nothing else
\* (other sessions, records, counters, totalUpdates, sessionId); with an
\* unknown number it changes neither the document nor the file.
C20_StopTouchesOneSession ==
    [][op' = "stopUpdateSession" =>
          LET i == FindSession(currentSession, arg')
              old == currentSession.sessions
              new == currentSession'.sessions
          IN IF i = 0
             THEN currentSession' = currentSession /\ disk' = disk
             ELSE /\ Len(new) = Len(old)
                  /\ \A j \in 1..Len(old) : j # i => new[j] = old[j]
                  /\ new[i].endTime = now
                  /\ new[i].duration = new[i].endTime - old[i].startTime
                  /\ new[i].startTime = old[i].startTime
                  /\ new[i].sessionNumber = old[i].sessionNumber
                  /\ new[i].updateCount = old[i].updateCount
                  /\ new[i].updates = old[i].updates
                  /\ currentSession'.totalUpdates = currentSession.totalUpdates
                  /\ currentSession'.sessionId = currentSession.sessionId]_vars

\* session 1, holding an update, was stopped one time unit after its start
\* while session 2 stayed open
C20_Witness ==
    /\ op = "stopUpdateSession" /\ arg = 1
    /\ Len(currentSession.sessions) = 2
    /\ currentSession.sessions[1].duration = 1
    /\ Len(currentSession.sessions[1].updates) >= 1
    /\ ~currentSession.sessions[2].ended

----------------------------------------------------------------------------
(* Persistence (SpecLogger, SpecUpdater, SpecRestart) *)

\* the step is a Logger call that changes the document
Mutation ==
    \/ op' = "startUpdateSession"
    \/ /\ op' \in {"logUpdate", "stopUpdateSession"}
       /\ FindSession(currentSession, arg') # 0

\* C21: after each startUpdateSession, and each logUpdate or stopUpdateSession
\* that found its session, if the write succeeded the file holds exactly the
\* in-memory document.
C21_WrittenAfterEveryMutation ==
    [][(Mutation /\ written') =>
          (Loads(file') /\ disk' = currentSession')]_vars

\* the second update of a session was logged and written
C21_Witness ==
    /\ op = "logUpdate" /\ ret = 2 /\ written
    /\ currentSession.totalUpdates = 2
    /\ disk = currentSession

\* C22: when the write of session.json fails the operation completes as
\* usual: a tick's update is counted in memory and the callback gets the next
\* update number, start still opens the session and arms the timer, stop
\* still closes the session, and a tick leaves the scheduler Running.
C22_FailedWriteNotPropagated ==
    [][/\ (op' = "performUpdate" /\ currentSessionNumber # 0 /\ ~written') =>
            LET old == currentSession.sessions[currentSessionNumber]
                new == currentSession'.sessions[currentSessionNumber]
            IN /\ new.updateCount = old.updateCount + 1
               /\ currentSession'.totalUpdates = currentSession.totalUpdates + 1
               /\ Len(callbacks') = Len(callbacks) + 1
               /\ callbacks'[Len(callbacks')].updateNumber = old.updateCount + 1
               /\ UNCHANGED <<updateInterval, liveTimers, currentSessionNumber>>
               /\ (~errorLogged' => UNCHANGED isUpdating)
       /\ (op' = "startContinuousUpdate" /\ ~isUpdating /\ ~written') =>
            /\ isUpdating' /\ liveTimers' = 1
            /\ currentSessionNumber' = Len(currentSession.sessions) + 1
            /\ Len(currentSession'.sessions) = currentSessionNumber'
            /\ NewTicks # {}
       /\ (op' = "stopContinuousUpdate" /\ currentSessionNumber # 0 /\ ~written') =>
            /\ ~isUpdating'
            /\ currentSession'.sessions[currentSessionNumber].ended]_vars

\* the write of a session's second update failed; the callback got number 2
\* and the scheduler is still running
C22_Witness ==
    /\ op = "performUpdate" /\ ~written /\ ~errorLogged
    /\ isUpdating /\ liveTimers = 1
    /\ disk # currentSession
    /\ Len(callbacks) = 2 /\ callbacks[2].updateNumber = 2

\* C23: reloading a successfully persisted state at process start gives the
\* same totalUpdates, the same sessions and per session the same update
\* count and update records; session and update numbers go on from there.
C23_RoundTrip ==
    [][/\ (op' = "loadSession" /\ written /\ Loads(file)) =>
            /\ currentSession'.totalUpdates = currentSession.totalUpdates
            /\ Len(currentSession'.sessions) = Len(currentSession.sessions)
            /\ \A i \in 1..Len(currentSession.sessions) :
                  /\ currentSession'.sessions[i].updateCount
                        = currentSession.sessions[i].updateCount
                  /\ currentSession'.sessions[i].updates
                        = currentSession.sessions[i].updates
       /\ op' = "startUpdateSession" =>
            ret' = Len(currentSession.sessions) + 1
       /\ (op' = "logUpdate" /\ FindSession(currentSession, arg') # 0) =>
            ret' = Len(currentSession.sessions[arg'].updates) + 1]_vars

\* a document with two sessions and two update records was reloaded
C23_Witness ==
    /\ op = "loadSession" /\ written /\ generated = 1
    /\ Len(currentSession.sessions) = 2
    /\ CountRecords(currentSession.sessions) = 2
    /\ currentSession = disk

\* C24: with session.json absent or unreadable at process start, loadSession
\* returns a fresh document (new sessionId, totalUpdates 0, no sessions),
\* which is on disk if the write succeeded; startUpdateSession on a document
\* without sessions returns 1.
C24_FreshWhenUnreadable ==
    [][/\ (op' = "loadSession" /\ ~Loads(file)) =>
            /\ currentSession'.totalUpdates = 0
            /\ currentSession'.sessions = <<>>
            /\ currentSession'.sessionId # currentSession.sessionId
            /\ currentSession'.sessionId # disk.sessionId
            /\ written' => (Loads(file') /\ disk' = currentSession')
       /\ (op' = "startUpdateSession" /\ currentSession.sessions = <<>>) =>
            ret' = 1]_vars

\* the first session of a document recreated in a later run got number 1
C24_Witness ==
    /\ op = "startUpdateSession" /\ ret = 1
    /\ currentSession.sessionId = generateSessionId(2)
    /\ Len(currentSession.sessions) = 1

----------------------------------------------------------------------------
(* The history buffer (SpecHistory) *)

\* C25: the history never holds more than HistoryCap (1000) entries; an
\* insertion into a full buffer drops the oldest entry only, and the entries
\* keep their order.
C25_HistoryCapped ==
    /\ [](Len(history) <= HistoryCap)
    /\ [][op' = "recordHistory" =>
            /\ Len(history') >= 1
            /\ history'[Len(history')].rate = previousRate'
            /\ history' = IF Len(history) < HistoryCap
                          THEN Append(history, history'[Len(history')])
                          ELSE Append(Tail(history), history'[Len(history')])]_vars

\* two fallback samples were pushed onto a full buffer
C25_Witness ==
    /\ op = "recordHistory" /\ Len(history) = HistoryCap
    /\ history[HistoryCap].source = "Fallback"
    /\ history[HistoryCap - 1].source = "Fallback"
    /\ history[1] = Filled(HistoryCap)[3]

----------------------------------------------------------------------------
(* Variation *)

\* direction of new against the previous in-memory rate
Compare(new, prev) ==
    IF prev = Missing THEN "unknown"
    ELSE IF new.v > prev.v THEN "up"
    ELSE IF new.v < prev.v THEN "down"
    ELSE "stable"

\* C26 (as claimed): the direction attached to every sample is the comparison
\* of its rate with the rate of the previous tick, unknown on the first tick.
C26_DirectionAgainstPrevious ==
    \A i \in 1..Len(history) :
        history[i].variationDirection
            = Compare(history[i].rate, history[i].previousRate)

\* the number a change text stands for is zero
IsZero(value) == \A i \in 1..Len(value) : value[i] \in Digits => value[i] = "0"

\* C27 (as claimed), on pages whose aria-label names no direction: a zero or
\* absent change gives stable, a negative one down, a positive one up.
C27_DirectionFromChange ==
    (dDone /\ dLabel.state # "label") =>
        dDirection = IF IsZero(dValue) THEN "stable"
                     ELSE IF Head(dValue) = "-" THEN "down"
                     ELSE "up"

----------------------------------------------------------------------------
(* Ticks (SpecUpdater) *)

\* every session and every update record of old is still in new, in place
Kept(old, new) ==
    /\ Len(new) >= Len(old)
    /\ \A i \in 1..Len(old) :
          /\ new[i].sessionNumber = old[i].sessionNumber
          /\ new[i].startTime = old[i].startTime
          /\ Len(new[i].updates) >= Len(old[i].updates)
          /\ SubSeq(new[i].updates, 1, Len(old[i].updates)) = old[i].updates

\* C28: no step removes, reorders or rewrites a session or an update record,
\* in memory or on disk, and a tick that completes while the session it
\* started in is open appends exactly one record, holding its sample, to
\* that session.
C28_AppendOnly ==
    [][/\ Kept(currentSession.sessions, currentSession'.sessions)
       /\ Kept(disk.sessions, disk'.sessions)
       /\ op' = "performUpdate" =>
            \A t \in inflight \ inflight' :
                (t.startedIn # 0 /\ ~currentSession.sessions[t.startedIn].ended) =>
                    LET old == currentSession.sessions
                        new == currentSession'.sessions
                    IN /\ Len(new[t.startedIn].updates)
                             = Len(old[t.startedIn].updates) + 1
                       /\ new[t.startedIn].updates[Len(new[t.startedIn].updates)].rate
                             = previousRate'
                       /\ \A j \in 1..Len(old) :
                             j # t.startedIn => new[j].updates = old[j].updates]_vars

\* a Fallback sample was recorded in session 2 while session 1 keeps its record
C28_Witness ==
    /\ op = "performUpdate" /\ currentSessionNumber = 2
    /\ Len(currentSession.sessions[1].updates) = 1
    /\ Len(currentSession.sessions[2].updates) = 1
    /\ currentSession.sessions[2].updates[1].source = "Fallback"

\* C29: a tick that ends in the catch block leaves the scheduler as it was:
\* Running, timer armed, session number kept and no session closed, so that
\* the next expiry starts a tick.
C29_FailedTickSkipped ==
    /\ []((op = "performUpdate" /\ errorLogged /\ isUpdating
             /\ ticksStarted < MaxTicks) => ENABLED timerFires)
    /\ [][(op' = "performUpdate" /\ errorLogged') =>
            /\ UNCHANGED <<isUpdating, updateInterval, liveTimers,
                           currentSessionNumber, ticksStarted>>
            /\ \A i \in 1..Len(currentSession.sessions) :
                  currentSession'.sessions[i].ended
                      = currentSession.sessions[i].ended]_vars

\* the callback of the first tick raised; the scheduler is running with its
\* session open and the following tick already under way
C29_Witness ==
    /\ op = "performUpdate" /\ errorLogged
    /\ isUpdating /\ liveTimers = 1 /\ currentSessionNumber = 1
    /\ ~currentSession.sessions[1].ended
    /\ Len(callbacks) = 1 /\ callbacks[1].tick = 1
    /\ \E t \in inflight : t.id = 2

OpenSession ==
    /\ currentSessionNumber # 0
    /\ FindSession(currentSession, currentSessionNumber) # 0
    /\ ~currentSession.sessions[FindSession(currentSession, currentSessionNumber)].ended

\* C31: between operations the scheduler's state agrees: isUpdating is true
\* exactly when one interval timer is armed (and its handle is kept) and
\* exactly when currentSessionNumber refers to an open session; at most one
\* timer is ever armed.
C31_SchedulerStateAgrees ==
    /\ liveTimers \in {0, 1}
    /\ isUpdating <=> liveTimers = 1
    /\ isUpdating <=> updateInterval
    /\ isUpdating <=> OpenSession

\* C31 witness: after two complete start/stop rounds, with a fetch of an
\* earlier tick still in flight, everything is off and both sessions are
\* closed.
C31_Witness ==
    /\ op = "stopContinuousUpdate"
    /\ ~isUpdating /\ liveTimers = 0 /\ ~updateInterval
    /\ currentSessionNumber = 0
    /\ Len(currentSession.sessions) = 2
    /\ currentSession.sessions[1].ended /\ currentSession.sessions[2].ended
    /\ inflight # {}

\* the sessions that gained an update record in this step
Grown ==
    {i \in 1..Len(currentSession.sessions) :
        Len(currentSession'.sessions[i].updates)
            > Len(currentSession.sessions[i].updates)}

\* C32: the record of a completed tick is appended to the session that was
\* current when the tick started; in particular the late result of a tick
\* started before a stop and a new start is not recorded in the new session.
C32_RecordedInStartSession ==
    [][op' = "performUpdate" =>
         \A t \in inflight \ inflight' :
             \A i \in Grown : currentSession.sessions[i].sessionNumber = t.startedIn]_vars

\* C33: no update record is ever appended to a session that has already
\* ended (endTime set), whatever the interleaving of start, stop, timer
\* ticks and fetch completions.
C33_EndedSessionsFrozen ==
    [][\A i \in 1..Len(currentSession.sessions) :
          currentSession.sessions[i].ended =>
              /\ currentSession'.sessions[i].updates = currentSession.sessions[i].updates
              /\ currentSession'.sessions[i].updateCount
                     = currentSession.sessions[i].updateCount]_vars

\* C33 witness: a fetch started in session 1 completed after the stop; the
\* callback ran with no update number and the ended session has no record.
C33_Witness ==
    /\ op = "performUpdate"
    /\ ~isUpdating
    /\ Len(currentSession.sessions) = 1
    /\ currentSession.sessions[1].ended
    /\ currentSession.sessions[1].updates = <<>>
    /\ Len(callbacks) = 1 /\ callbacks[1].updateNumber = 0
    /\ inflight = {}

\* C34: in every session updateCount is the number of its update records
\* and the i-th record has updateNumber i, also when several ticks are in
\* flight together and complete in any order.
C34_CountAndNumbering ==
    \A s \in 1..Len(currentSession.sessions) :
        LET session == currentSession.sessions[s] IN
        /\ session.updateCount = Len(session.updates)
        /\ \A i \in 1..Len(session.updates) : session.updates[i].updateNumber = i

\* C34 witness: two ticks of one session were in flight together and the
\* later one completed first; the session holds records 1 and 2.
C34_Witness ==
    /\ Len(callbacks) = 2
    /\ callbacks[1].tick = 2 /\ callbacks[2].tick = 1
    /\ callbacks[1].updateNumber = 1 /\ callbacks[2].updateNumber = 2
    /\ Len(currentSession.sessions) = 1
    /\ currentSession.sessions[1].updateCount = 2
    /\ Len(currentSession.sessions[1].updates) = 2

\* the rate of the newest history entry (null while the history is empty)
LastRate(h) == IF h = <<>> THEN Missing ELSE h[Len(h)].rate

\* C35: the previous-rate chain is consistent: the previousRate attached to
\* the sample of each completed tick is the rate of the history entry just
\* before it (null for the first tick of the process), in any completion
\* order of overlapping ticks, and this.previousRate is left as it is by
\* stop and by start.
C35_PreviousRateChain ==
    /\ [](previousRate = LastRate(history))
    /\ [][/\ op' = "performUpdate" =>
               /\ Len(history') = Len(history) + 1
               /\ history'[Len(history')].previousRate = LastRate(history)
          /\ op' \in {"startContinuousUpdate", "stopContinuousUpdate"} =>
               previousRate' = previousRate]_vars

\* C35 witness: one tick completed in session 1 and, after a stop and a new
\* start, one in session 2 with another rate; the second sample carries the
\* rate of the first.
C35_Witness ==
    /\ op = "performUpdate"
    /\ Len(currentSession.sessions) = 2
    /\ currentSession.sessions[1].ended
    /\ Len(history) = 2
    /\ history[1].previousRate = Missing
    /\ history[2].previousRate = history[1].rate
    /\ history[2].rate # history[1].rate
    /\ previousRate = history[2].rate

-----------------------------------------------------------------------------
(* Termination of the resolver *)

\* the Scraper constructed with any platform, any set of enabled sources
\* and any retry ceiling; priority and fallbackRate, which play no part in
\* the number of attempts, are the ones of the shipped configuration
InitLive ==
    /\ UpdaterIdle /\ disk = EmptyDocument
    /\ isTermux \in BOOLEAN
    /\ sources \in SUBSET SourceNames
    /\ priority = DefaultPriority
    /\ maxRetries \in 0..MaxRetriesBound
    /\ fallbackRate = 550
    /\ CallIdle
    /\ ValidateIdle /\ DirectionIdle /\ FormatIdle

\* one call of a fetcher through trySource comes to its end: it is skipped,
\* resolves with a sample or with null, or rejects
Fetch == trySourceSkip \/ trySourceSample \/ trySourceNull \/ trySourceCaught

\* the resolver when every fetch that was started eventually resolves or
\* fails and every retry delay (setTimeout) eventually elapses
SpecLive == InitLive /\ [][Next]_vars /\ WF_vars(Fetch) /\ WF_vars(delay)

\* C36: when every fetch eventually resolves or fails, a call of
\* getExchangeRate makes at most (number of enabled sources) x
\* (maxRetries + 1) fetch attempts in total, and it returns.
C36_Terminates ==
    /\ [](call = "getExchangeRate" =>
              Len(trace) <= Cardinality(sources) * (maxRetries + 1))
    /\ (call = "getExchangeRate") ~> Returned

\* C36 witness: on the desktop with the three sources enabled, Google
\* Finance threw on every attempt and was retried maxRetries times, the two
\* APIs returned null, and the call returned the static fallback.
C36_Witness ==
    /\ Returned
    /\ ~isTermux /\ Cardinality(sources) = 3 /\ maxRetries >= 1
    /\ Len(trace) = maxRetries + 3
    /\ Attempts(Google) = maxRetries + 1
    /\ result.source = "Fallback"

-----------------------------------------------------------------------------
(* Recovery of the file (SpecLogger) *)

\* C37: the file recovers after failed writes: when the file lacks part of
\* the document (writes have failed since it was last complete), the first
\* later mutation whose write succeeds leaves on disk the complete in-memory
\* document, with the sessions and updates whose own writes had failed.
C37_DiskRecovers ==
    [][(Mutation /\ disk # currentSession /\ written') =>
          /\ Loads(file')
          /\ disk' = currentSession'
          /\ Len(disk'.sessions) = Len(currentSession'.sessions)
          /\ CountRecords(disk'.sessions) = CountRecords(currentSession'.sessions)]_vars

\* C37 witness: the second update of a session was logged while the file was
\* behind the document, its write succeeded, and the file holds the whole
\* document.
C37_Witness ==
    /\ op = "logUpdate" /\ ret = 2
    /\ wasBehind /\ written
    /\ disk = currentSession
    /\ CountRecords(disk.sessions) = 2

-----------------------------------------------------------------------------
(* getFormattedHistory (updater.js 330-341) *)

\* Array.prototype.slice(start) with one argument: a negative start counts
\* from the end, and -0 is 0
slice(h, start) ==
    LET len == Len(h)
        k   == IF start < 0
               THEN (IF len + start > 0 THEN len + start ELSE 0)
               ELSE (IF start < len THEN start ELSE len)
    IN SubSeq(h, k + 1, len)

\* Number.prototype.toFixed(4) of a rate kept in hundredths
toFixed4(x) ==
    ToString(x.v \div 100) \o "." \o
    (IF x.v % 100 < 10 THEN "0" ELSE "") \o ToString(x.v % 100) \o "00"

\* the object the map callback builds from one history entry (of the
\* fields the modelled entries carry)
Formatted(entry) ==
    [rate |-> toFixed4(entry.rate), source |-> entry.source,
     direction |-> entry.variationDirection]

\* Updater.getFormattedHistory: this.history.slice(-limit).map(...)
getFormattedHistory(h, limit) ==
    LET last == slice(h, 0 - limit) IN
    [i \in 1..Len(last) |-> Formatted(last[i])]

InitFormatted ==
    /\ DefaultConfig /\ CallIdle /\ ValidateIdle /\ DirectionIdle
    /\ \E n \in 0..MaxHistoryLen :
          /\ history = Filled(n)
          /\ previousRate = IF n = 0 THEN Missing ELSE RunRate(n)
    /\ isUpdating = FALSE /\ updateInterval = FALSE /\ liveTimers = 0
    /\ currentSessionNumber = 0
    /\ inflight = {} /\ ticksStarted = 0 /\ logBlocks = <<>>
    /\ callbacks = <<>> /\ op = "constructor" /\ warning = FALSE
    /\ wasUpdating = FALSE /\ errorLogged = FALSE
    /\ currentSession = EmptyDocument /\ disk = EmptyDocument
    /\ written = TRUE /\ file = "readable" /\ generated = 1
    /\ now = 0 /\ arg = 0 /\ ret = 0 /\ wasBehind = FALSE
    /\ fLimit \in 0..MaxLimit /\ fDone = FALSE /\ fResult = <<>>

\* one call getFormattedHistory(fLimit)
callGetFormattedHistory ==
    /\ ~fDone
    /\ fDone' = TRUE
    /\ fResult' = getFormattedHistory(history, fLimit)
    /\ UNCHANGED <<fLimit, resolverVars, validateVars, directionVars, updaterVars>>

NextFormatted == callGetFormattedHistory

SpecFormatted == InitFormatted /\ [][NextFormatted]_vars

\* C38: getFormattedHistory(limit) returns at most limit entries: the most
\* recent min(limit, history length) entries, oldest first, for every
\* limit >= 0; limit = 0 returns no entries.
C38_MostRecentUpToLimit ==
    fDone =>
        LET n == IF fLimit < Len(history) THEN fLimit ELSE Len(history) IN
        /\ Len(fResult) <= fLimit
        /\ Len(fResult) = n
        /\ \A i \in 1..n : fResult[i] = Formatted(history[Len(history) - n + i])

====
